---- MODULE Spec2Model ----
(***************************************************************************)
(* Model of the live-pipeline rule loader, package pipeline:               *)
(* FileStorage.ListChannelRules and the recursive builders                 *)
(* extractConverter, extractProcessor, extractConditionChecker and         *)
(* extractOutputter, with getRemoteWriteConfig.                            *)
(*                                                                         *)
(* Go values are represented as follows.                                   *)
(*   - a pointer *T is a sequence of length 0 (nil) or 1 (the pointee);    *)
(*   - a slice []T is a sequence; a nil slice is the empty sequence;       *)
(*   - an error is Nil or Some([msg |-> ..., arg |-> ...]);                *)
(*   - a value built by a constructor NewX(args) is a record               *)
(*     [stage |-> "X", ...] that holds the arguments it was given;         *)
(*   - a builder's return (value, error) is the record                     *)
(*     [val, err, panic, visited]: panic is TRUE when evaluation           *)
(*     dereferenced a nil pointer, visited lists, in call order, the       *)
(*     non-nil configuration nodes a builder was entered with.             *)
(***************************************************************************)
EXTENDS Naturals, Sequences, FiniteSets

VARIABLES
  remoteWriteBackends,  \* FileStorage.remoteWriteBackends
  file,                 \* the rules file read by the latest call
  result,               \* what the latest call returned
  called,               \* whether ListChannelRules has been called at all
  pc,                   \* concurrent callers: position of each in ListChannelRules
  channelRules,         \* concurrent callers: the parsed document (a local)
  rules,                \* concurrent callers: the rules built so far (a local)
  ret,                  \* concurrent callers: what the call returned
  kept                  \* the rules of the first successful call, as its caller holds them

vars == <<remoteWriteBackends, file, result, called, pc, channelRules, rules, ret, kept>>

----------------------------------------------------------------------------
(* Pointers and return values *)

Nil == <<>>

Some(x) == <<x>>

Ret(val, err, visited) ==
  [val |-> val, err |-> err, panic |-> FALSE, visited |-> visited]

Panic(visited) ==
  [val |-> Nil, err |-> Nil, panic |-> TRUE, visited |-> visited]

Failed(r) == r.panic \/ r.err # Nil

Visit(kind, c) == [kind |-> kind, type |-> c.type, config |-> c]

missingConfigurationError(type) ==
  [msg |-> "missing configuration for", arg |-> type]

unknownTypeError(kind, type) ==
  [msg |-> "unknown " \o kind \o " type", arg |-> type]

unknownBackendError(uid) ==
  [msg |-> "unknown remote write backend uid", arg |-> uid]

----------------------------------------------------------------------------
(* extractConverter *)

\* extractConverter with one line changed, as selected by bug:
\*   "default"  the default case returns nil, nil instead of the error;
\*   "nocheck"  the jsonExact case has lost its nil check;
\*   "nil"      a nil config is reported as a missing configuration;
\*   "strict"   a node with more than one payload field is rejected.
extractConverterWith(bug, config) ==
  IF config = Nil
  THEN IF bug = "nil" THEN Ret(Nil, Some(missingConfigurationError("")), <<>>)
       ELSE Ret(Nil, Nil, <<>>)
  ELSE
    LET c == config[1]
        v == <<Visit("converter", c)>>
        missingConfiguration == Some(missingConfigurationError(c.type))
    IN CASE bug = "strict" /\ Cardinality({k \in DOMAIN c \ {"type"} : c[k] # Nil}) > 1 ->
              Ret(Nil, missingConfiguration, v)
         [] c.type = "jsonAuto" ->
              IF c.jsonAuto = Nil THEN Ret(Nil, missingConfiguration, v)
              ELSE Ret(Some([stage |-> "AutoJsonConverter", config |-> c.jsonAuto[1]]), Nil, v)
         [] c.type = "jsonExact" ->
              IF c.jsonExact = Nil /\ bug # "nocheck" THEN Ret(Nil, missingConfiguration, v)
              ELSE Ret(Some([stage |-> "ExactJsonConverter", config |-> c.jsonExact]), Nil, v)
         [] c.type = "jsonFrame" ->
              IF c.jsonFrame = Nil THEN Ret(Nil, missingConfiguration, v)
              ELSE Ret(Some([stage |-> "JsonFrameConverter", config |-> c.jsonFrame[1]]), Nil, v)
         [] c.type = "influxAuto" ->
              IF c.influxAuto = Nil THEN Ret(Nil, missingConfiguration, v)
              ELSE Ret(Some([stage |-> "AutoInfluxConverter", config |-> c.influxAuto[1]]), Nil, v)
         [] OTHER ->
              IF bug = "default" THEN Ret(Nil, Nil, v)
              ELSE Ret(Nil, Some(unknownTypeError("converter", c.type)), v)

extractConverter_AcceptsUnknownType(config) == extractConverterWith("default", config)

extractConverter_NoNilCheck(config) == extractConverterWith("nocheck", config)

extractConverter_RejectsOmitted(config) == extractConverterWith("nil", config)

extractConverter_RejectsExtraPayload(config) == extractConverterWith("strict", config)

extractConverter(config) ==
  IF config = Nil THEN Ret(Nil, Nil, <<>>)
  ELSE
    LET c == config[1]
        v == <<Visit("converter", c)>>
        missingConfiguration == Some(missingConfigurationError(c.type))
    IN CASE c.type = "jsonAuto" ->
              IF c.jsonAuto = Nil THEN Ret(Nil, missingConfiguration, v)
              ELSE Ret(Some([stage |-> "AutoJsonConverter", config |-> c.jsonAuto[1]]), Nil, v)
         [] c.type = "jsonExact" ->
              IF c.jsonExact = Nil THEN Ret(Nil, missingConfiguration, v)
              ELSE Ret(Some([stage |-> "ExactJsonConverter", config |-> c.jsonExact[1]]), Nil, v)
         [] c.type = "jsonFrame" ->
              IF c.jsonFrame = Nil THEN Ret(Nil, missingConfiguration, v)
              ELSE Ret(Some([stage |-> "JsonFrameConverter", config |-> c.jsonFrame[1]]), Nil, v)
         [] c.type = "influxAuto" ->
              IF c.influxAuto = Nil THEN Ret(Nil, missingConfiguration, v)
              ELSE Ret(Some([stage |-> "AutoInfluxConverter", config |-> c.influxAuto[1]]), Nil, v)
         [] OTHER ->
              Ret(Nil, Some(unknownTypeError("converter", c.type)), v)

----------------------------------------------------------------------------
(* extractProcessor *)

RECURSIVE extractProcessor(_)
RECURSIVE extractProcessorLoop(_, _, _)

\* extractProcessorAppend putting the child in front of the children built
\* so far instead of behind them.
extractProcessorAppend_Prepends(r, confs, processors, v) ==
  IF r.panic THEN Panic(v \o r.visited)
  ELSE IF r.err # Nil THEN Ret(Nil, r.err, v \o r.visited)
  ELSE extractProcessorLoop(Tail(confs), <<r.val>> \o processors, v \o r.visited)

\* The body of the for loop after its call of extractProcessor returned r:
\* return the error, or append the child and go on.
extractProcessorAppend(r, confs, processors, v) ==
  IF r.panic THEN Panic(v \o r.visited)
  ELSE IF r.err # Nil THEN Ret(Nil, r.err, v \o r.visited)
  ELSE extractProcessorLoop(Tail(confs), Append(processors, r.val), v \o r.visited)

\* The for loop of the "multiple" case: confs are the child configurations
\* not yet resolved, processors the children built so far, v the visits so far.
extractProcessorLoop(confs, processors, v) ==
  IF confs = <<>>
  THEN Ret(Some([stage |-> "MultipleProcessor", processors |-> processors]), Nil, v)
  ELSE extractProcessorAppend(extractProcessor(Some(Head(confs))), confs, processors, v)

extractProcessor(config) ==
  IF config = Nil THEN Ret(Nil, Nil, <<>>)
  ELSE
    LET c == config[1]
        v == <<Visit("processor", c)>>
        missingConfiguration == Some(missingConfigurationError(c.type))
    IN CASE c.type = "dropFields" ->
              IF c.dropFields = Nil THEN Ret(Nil, missingConfiguration, v)
              ELSE Ret(Some([stage |-> "DropFieldsProcessor", config |-> c.dropFields[1]]), Nil, v)
         [] c.type = "keepFields" ->
              IF c.keepFields = Nil THEN Ret(Nil, missingConfiguration, v)
              ELSE Ret(Some([stage |-> "KeepFieldsProcessor", config |-> c.keepFields[1]]), Nil, v)
         [] c.type = "multiple" ->
              IF c.multiple = Nil THEN Ret(Nil, missingConfiguration, v)
              ELSE extractProcessorLoop(c.multiple[1].processors, <<>>, v)
         [] OTHER ->
              Ret(Nil, Some(unknownTypeError("processor", c.type)), v)

----------------------------------------------------------------------------
(* extractConditionChecker *)

RECURSIVE extractConditionChecker(_)
RECURSIVE extractConditionCheckerLoop(_, _, _, _)

\* extractConditionCheckerAppend after a loop body that calls
\* extractConditionChecker on the child a second time.
extractConditionCheckerAppend_ResolvesChildTwice(r, type, confs, conditions, v) ==
  IF r.panic THEN Panic(v \o r.visited)
  ELSE IF r.err # Nil THEN Ret(Nil, r.err, v \o r.visited \o r.visited)
  ELSE extractConditionCheckerLoop(type, Tail(confs),
                                   Append(conditions, r.val), v \o r.visited \o r.visited)

\* The body of the for loop after its call of extractConditionChecker
\* returned r.
extractConditionCheckerAppend(r, type, confs, conditions, v) ==
  IF r.panic THEN Panic(v \o r.visited)
  ELSE IF r.err # Nil THEN Ret(Nil, r.err, v \o r.visited)
  ELSE extractConditionCheckerLoop(type, Tail(confs),
                                   Append(conditions, r.val), v \o r.visited)

\* The for loop of the "multiple" case; type is the ConditionType of the
\* MultipleConditionCheckerConfig.
extractConditionCheckerLoop(type, confs, conditions, v) ==
  IF confs = <<>>
  THEN Ret(Some([stage |-> "MultipleConditionChecker", type |-> type,
                 conditions |-> conditions]), Nil, v)
  ELSE extractConditionCheckerAppend(extractConditionChecker(Some(Head(confs))),
                                     type, confs, conditions, v)

extractConditionChecker(config) ==
  IF config = Nil THEN Ret(Nil, Nil, <<>>)
  ELSE
    LET c == config[1]
        v == <<Visit("condition", c)>>
        missingConfiguration == Some(missingConfigurationError(c.type))
    IN CASE c.type = "numberCompare" ->
              IF c.numberCompare = Nil THEN Ret(Nil, missingConfiguration, v)
              ELSE Ret(Some([stage |-> "NumberCompareCondition",
                             config |-> c.numberCompare[1]]), Nil, v)
         [] c.type = "multiple" ->
              IF c.multiple = Nil THEN Ret(Nil, missingConfiguration, v)
              ELSE extractConditionCheckerLoop(c.multiple[1].type,
                                               c.multiple[1].conditions, <<>>, v)
         [] OTHER ->
              Ret(Nil, Some(unknownTypeError("condition", c.type)), v)

----------------------------------------------------------------------------
(* getRemoteWriteConfig and extractOutputter.  backends is the value of    *)
(* f.remoteWriteBackends that the calls read.                               *)

RECURSIVE firstWithUID(_, _)

\* The for loop of getRemoteWriteConfig: the first entry with the UID.
firstWithUID(backends, uid) ==
  IF backends = <<>> THEN [config |-> Nil, ok |-> FALSE]
  ELSE IF Head(backends).uid = uid
       THEN [config |-> Head(backends).settings, ok |-> TRUE]
       ELSE firstWithUID(Tail(backends), uid)

\* getRemoteWriteConfig without the comparison of UIDs: the first entry.
getRemoteWriteConfig_IgnoresUID(backends, uid) ==
  IF backends = <<>> THEN [config |-> Nil, ok |-> FALSE]
  ELSE [config |-> Head(backends).settings, ok |-> TRUE]

getRemoteWriteConfig(backends, uid) == firstWithUID(backends, uid)

RECURSIVE extractOutputter(_, _)
RECURSIVE extractOutputterLoop(_, _, _, _)

\* extractOutputterAppend without "if err != nil { return nil, err }": a child
\* that failed is left out and the loop goes on.
extractOutputterAppend_SkipsFailedChild(r, backends, confs, outputters, v) ==
  IF r.panic THEN Panic(v \o r.visited)
  ELSE IF r.err # Nil
  THEN extractOutputterLoop(backends, Tail(confs), outputters, v \o r.visited)
  ELSE extractOutputterLoop(backends, Tail(confs),
                            Append(outputters, r.val), v \o r.visited)

\* The body of the for loop after its call of extractOutputter returned r.
extractOutputterAppend(r, backends, confs, outputters, v) ==
  IF r.panic THEN Panic(v \o r.visited)
  ELSE IF r.err # Nil THEN Ret(Nil, r.err, v \o r.visited)
  ELSE extractOutputterLoop(backends, Tail(confs),
                            Append(outputters, r.val), v \o r.visited)

\* The for loop of the "multiple" case.
extractOutputterLoop(backends, confs, outputters, v) ==
  IF confs = <<>>
  THEN Ret(Some([stage |-> "MultipleOutputter", outputters |-> outputters]), Nil, v)
  ELSE extractOutputterAppend(extractOutputter(backends, Some(Head(confs))),
                              backends, confs, outputters, v)

\* The "conditional" case after both calls returned, rc the condition's
\* return and ro the outputter's.
extractConditionalBoth(rc, ro, v) ==
  IF ro.panic THEN Panic(v \o rc.visited \o ro.visited)
  ELSE IF ro.err # Nil THEN Ret(Nil, ro.err, v \o rc.visited \o ro.visited)
  ELSE Ret(Some([stage |-> "ConditionalOutput", condition |-> rc.val,
                 outputter |-> ro.val]), Nil, v \o rc.visited \o ro.visited)

\* The "conditional" case after extractConditionChecker returned rc.
extractConditionalOutputter(rc, backends, conf, v) ==
  IF rc.panic THEN Panic(v \o rc.visited)
  ELSE IF rc.err # Nil THEN Ret(Nil, rc.err, v \o rc.visited)
  ELSE extractConditionalBoth(rc, extractOutputter(backends, conf.outputter), v)

\* The "conditional" case with its two calls exchanged, after both returned.
extractConditionalOutputterFirstBoth(ro, rc, v) ==
  IF rc.panic THEN Panic(v \o ro.visited \o rc.visited)
  ELSE IF rc.err # Nil THEN Ret(Nil, rc.err, v \o ro.visited \o rc.visited)
  ELSE Ret(Some([stage |-> "ConditionalOutput", condition |-> rc.val,
                 outputter |-> ro.val]), Nil, v \o ro.visited \o rc.visited)

\* The "conditional" case with its two calls exchanged, after
\* extractOutputter returned ro.
extractConditionalOutputterFirstCondition(ro, conf, v) ==
  IF ro.panic THEN Panic(v \o ro.visited)
  ELSE IF ro.err # Nil THEN Ret(Nil, ro.err, v \o ro.visited)
  ELSE extractConditionalOutputterFirstBoth(ro, extractConditionChecker(conf.condition), v)

\* extractConditional resolving the outputter before the condition.
extractConditional_OutputterFirst(backends, conf, v) ==
  extractConditionalOutputterFirstCondition(extractOutputter(backends, conf.outputter),
                                            conf, v)

\* The "conditional" case once its payload is known to be present.
extractConditional(backends, conf, v) ==
  extractConditionalOutputter(extractConditionChecker(conf.condition), backends, conf, v)

\* extractRemoteWrite building the outputter from the backend's UID, to be
\* looked up in f.remoteWriteBackends when the outputter is used, instead of
\* from a copy of the settings found now.
extractRemoteWrite_KeepsUID(backends, conf, v) ==
  LET got == getRemoteWriteConfig(backends, conf.uid)
  IN IF ~got.ok THEN Ret(Nil, Some(unknownBackendError(conf.uid)), v)
     ELSE IF got.config = Nil THEN Panic(v)
     ELSE Ret(Some([stage |-> "RemoteWriteOutput", config |-> [uid |-> conf.uid]]), Nil, v)

\* The "remoteWrite" case once its payload is known to be present.
extractRemoteWrite(backends, conf, v) ==
  LET got == getRemoteWriteConfig(backends, conf.uid)
  IN IF ~got.ok THEN Ret(Nil, Some(unknownBackendError(conf.uid)), v)
     ELSE IF got.config = Nil THEN Panic(v)   \* *remoteWriteConfig of a nil pointer
     ELSE Ret(Some([stage |-> "RemoteWriteOutput", config |-> got.config[1]]), Nil, v)

extractOutputter(backends, config) ==
  IF config = Nil THEN Ret(Nil, Nil, <<>>)
  ELSE
    LET c == config[1]
        v == <<Visit("output", c)>>
        missingConfiguration == Some(missingConfigurationError(c.type))
    IN CASE c.type = "redirect" ->
              IF c.redirect = Nil THEN Ret(Nil, missingConfiguration, v)
              ELSE Ret(Some([stage |-> "RedirectOutput", config |-> c.redirect[1]]), Nil, v)
         [] c.type = "multiple" ->
              IF c.multiple = Nil THEN Ret(Nil, missingConfiguration, v)
              ELSE extractOutputterLoop(backends, c.multiple[1].outputters, <<>>, v)
         [] c.type = "ManagedStream" ->
              Ret(Some([stage |-> "ManagedStreamOutput", config |-> "f.ManagedStream"]), Nil, v)
         [] c.type = "localSubscribers" ->
              Ret(Some([stage |-> "LocalSubscribersOutput", config |-> "f.Node"]), Nil, v)
         [] c.type = "conditional" ->
              IF c.conditional = Nil THEN Ret(Nil, missingConfiguration, v)
              ELSE extractConditional(backends, c.conditional[1], v)
         [] c.type = "threshold" ->
              IF c.threshold = Nil THEN Ret(Nil, missingConfiguration, v)
              ELSE Ret(Some([stage |-> "ThresholdOutput", config |-> c.threshold[1]]), Nil, v)
         [] c.type = "remoteWrite" ->
              IF c.remoteWrite = Nil THEN Ret(Nil, missingConfiguration, v)
              ELSE extractRemoteWrite(backends, c.remoteWrite[1], v)
         [] c.type = "changeLog" ->
              IF c.changeLog = Nil THEN Ret(Nil, missingConfiguration, v)
              ELSE Ret(Some([stage |-> "ChangeLogOutput", config |-> c.changeLog[1]]), Nil, v)
         [] OTHER ->
              Ret(Nil, Some(unknownTypeError("output", c.type)), v)

----------------------------------------------------------------------------
(* ListChannelRules *)

\* One iteration of the loop over channelRules.Rules: the rule built from
\* ruleConfig, or the first error among its three stages.
\* The loop body after all three stages returned: rc, rp and ro are the
\* returns of extractConverter, extractProcessor and extractOutputter.
buildRuleOutputter(rc, rp, ro, ruleConfig) ==
  IF Failed(ro)
  THEN [ro EXCEPT !.val = Nil, !.visited = rc.visited \o rp.visited \o ro.visited]
  ELSE Ret(Some([Pattern |-> ruleConfig.pattern,
                 Converter |-> rc.val,
                 Processor |-> rp.val,
                 Outputter |-> ro.val]), Nil, rc.visited \o rp.visited \o ro.visited)

\* The loop body after extractConverter returned rc and extractProcessor rp.
buildRuleProcessor(rc, rp, backends, ruleConfig) ==
  IF Failed(rp) THEN [rp EXCEPT !.val = Nil, !.visited = rc.visited \o rp.visited]
  ELSE buildRuleOutputter(rc, rp, extractOutputter(backends, ruleConfig.settings.outputter),
                          ruleConfig)

\* The loop body after extractConverter returned rc.
buildRuleConverter(rc, backends, ruleConfig) ==
  IF Failed(rc) THEN [rc EXCEPT !.val = Nil]
  ELSE buildRuleProcessor(rc, extractProcessor(ruleConfig.settings.processor),
                          backends, ruleConfig)

buildRule(backends, ruleConfig) ==
  buildRuleConverter(extractConverter(ruleConfig.settings.converter), backends, ruleConfig)

RECURSIVE buildRules(_, _, _, _)

\* The loop after one iteration returned r: return nil and the error, or
\* append the rule and go on.
buildRulesAppend(r, backends, confs, built, v) ==
  IF r.panic
  THEN [rules |-> <<>>, err |-> Nil, panic |-> TRUE, visited |-> v \o r.visited]
  ELSE IF r.err # Nil
  THEN [rules |-> <<>>, err |-> r.err, panic |-> FALSE, visited |-> v \o r.visited]
  ELSE buildRules(backends, Tail(confs), Append(built, r.val[1]), v \o r.visited)

\* The loop over channelRules.Rules: confs are the rules not yet built, built
\* the rules appended so far.  Returns [rules, err, panic, visited].
buildRules(backends, confs, built, v) ==
  IF confs = <<>>
  THEN [rules |-> built, err |-> Nil, panic |-> FALSE, visited |-> v]
  ELSE buildRulesAppend(buildRule(backends, Head(confs)), backends, confs, built, v)

jsonError == [msg |-> "json", arg |-> ""]

\* What the call returns and leaves in f.remoteWriteBackends, given the
\* loop's outcome r and the list assigned before the loop.
returned(r, assigned) ==
  [rules |-> r.rules, err |-> r.err, panic |-> r.panic, visited |-> r.visited,
   remoteWriteBackends |-> assigned]

RECURSIVE buildRulesKeepingBuilt(_, _, _, _)

buildRulesKeepingBuiltAppend(r, backends, confs, built, v) ==
  IF r.panic
  THEN [rules |-> <<>>, err |-> Nil, panic |-> TRUE, visited |-> v \o r.visited]
  ELSE IF r.err # Nil
  THEN [rules |-> built, err |-> r.err, panic |-> FALSE, visited |-> v \o r.visited]
  ELSE buildRulesKeepingBuilt(backends, Tail(confs), Append(built, r.val[1]),
                              v \o r.visited)

\* buildRules returning, on an error, the rules built before it.
buildRulesKeepingBuilt(backends, confs, built, v) ==
  IF confs = <<>>
  THEN [rules |-> built, err |-> Nil, panic |-> FALSE, visited |-> v]
  ELSE buildRulesKeepingBuiltAppend(buildRule(backends, Head(confs)),
                                    backends, confs, built, v)

\* ListChannelRules with "return rules, err" in place of "return nil, err".
ListChannelRules_ReturnsBuiltOnError(backends, f) ==
  IF ~f.ok
  THEN [rules |-> <<>>, err |-> Some(jsonError), panic |-> FALSE, visited |-> <<>>,
        remoteWriteBackends |-> backends]
  ELSE returned(buildRulesKeepingBuilt(f.doc.remoteWriteBackends, f.doc.rules, <<>>, <<>>),
                f.doc.remoteWriteBackends)

\* The whole call on a FileStorage whose remoteWriteBackends field holds
\* backends, reading the rules file f: the value returned and the field after.
\* f.ok is FALSE when json.Unmarshal fails (also on an unreadable file, whose
\* read error is dropped and whose bytes are empty).
ListChannelRules(backends, f) ==
  IF ~f.ok
  THEN [rules |-> <<>>, err |-> Some(jsonError), panic |-> FALSE, visited |-> <<>>,
        remoteWriteBackends |-> backends]
  ELSE returned(buildRules(f.doc.remoteWriteBackends, f.doc.rules, <<>>, <<>>),
                f.doc.remoteWriteBackends)

----------------------------------------------------------------------------
(* Configuration documents: what json.Unmarshal produces from a rules file. *)
(* A payload field that the JSON omits is a nil pointer.                     *)

MaxChildren == 2   \* longest child list of a wide "multiple" node

MaxDepth == 2      \* deepest nesting of "multiple"/"conditional" wrappers

MaxRules == 2      \* most rules in a document

Cfg(name) == [name |-> name]   \* an opaque leaf payload

\* ConverterConfig
ConverterConfig(type, present) ==
  [type |-> type,
   jsonAuto   |-> IF "jsonAuto"   \in present THEN Some(Cfg("jsonAuto"))   ELSE Nil,
   jsonExact  |-> IF "jsonExact"  \in present THEN Some(Cfg("jsonExact"))  ELSE Nil,
   influxAuto |-> IF "influxAuto" \in present THEN Some(Cfg("influxAuto")) ELSE Nil,
   jsonFrame  |-> IF "jsonFrame"  \in present THEN Some(Cfg("jsonFrame"))  ELSE Nil]

ConverterTypes == {"jsonAuto", "jsonExact", "jsonFrame", "influxAuto"}

\* Type strings that name no converter ("dropFields" names a processor).
UnknownTypes == {"bogus", ""}

ConverterConfigs ==
  {ConverterConfig(t, {t}) : t \in ConverterTypes}
    \cup {ConverterConfig(t, {}) : t \in ConverterTypes \cup UnknownTypes}
    \cup {ConverterConfig("jsonAuto", {"jsonExact"}),
          ConverterConfig("jsonAuto", {"jsonAuto", "jsonExact"}),
          ConverterConfig("bogus", {"jsonAuto"}),
          ConverterConfig("dropFields", {"jsonAuto"}),
          ConverterConfig("JsonAuto", {"jsonAuto"})}

\* ProcessorConfig; children is the Processors slice of a present "multiple".
ProcessorConfig(type, present, children) ==
  [type |-> type,
   dropFields |-> IF "dropFields" \in present THEN Some(Cfg("dropFields")) ELSE Nil,
   keepFields |-> IF "keepFields" \in present THEN Some(Cfg("keepFields")) ELSE Nil,
   multiple   |-> IF "multiple" \in present THEN Some([processors |-> children]) ELSE Nil]

ProcessorLeafTypes == {"dropFields", "keepFields"}

ProcessorLeaves ==
  {ProcessorConfig(t, {t}, <<>>) : t \in ProcessorLeafTypes}
    \cup {ProcessorConfig(t, {}, <<>>) : t \in ProcessorLeafTypes \cup {"multiple"} \cup UnknownTypes}
    \cup {ProcessorConfig("dropFields", {"keepFields"}, <<>>),
          ProcessorConfig("dropFields", {"dropFields", "keepFields"}, <<>>),
          ProcessorConfig("bogus", {"dropFields"}, <<>>),
          ProcessorConfig("jsonAuto", {}, <<>>)}

\* A valid leaf, an unknown type and a missing payload.
ProcessorProbes ==
  {ProcessorConfig("keepFields", {"keepFields"}, <<>>),
   ProcessorConfig("bogus", {}, <<>>),
   ProcessorConfig("dropFields", {}, <<>>)}

SeqsUpTo(S, n) == UNION {[1..k -> S] : k \in 0..n}

ProcessorWide ==
  {ProcessorConfig("multiple", {"multiple"}, cs) : cs \in SeqsUpTo(ProcessorProbes, MaxChildren)}
    \cup {ProcessorConfig("keepFields", {"keepFields", "multiple"}, <<p>>) : p \in ProcessorProbes}
    \cup {ProcessorConfig("bogus", {"multiple"}, <<p>>) : p \in ProcessorProbes}
    \cup {ProcessorConfig("multiple", {"multiple"},
                           <<ProcessorConfig("dropFields", {"dropFields"}, <<>>),
                             ProcessorConfig("multiple", {"multiple"}, <<>>)>>)}

RECURSIVE ProcessorDeep(_)

\* Probes wrapped d times in a "multiple", alone or after a valid sibling.
ProcessorDeep(d) ==
  IF d = 0 THEN ProcessorProbes
  ELSE LET inner == ProcessorDeep(d - 1)
           ok == ProcessorConfig("keepFields", {"keepFields"}, <<>>)
       IN {ProcessorConfig("multiple", {"multiple"}, <<p>>) : p \in inner}
            \cup {ProcessorConfig("multiple", {"multiple"}, <<ok, p>>) : p \in inner}

ProcessorConfigs ==
  ProcessorLeaves \cup ProcessorWide \cup UNION {ProcessorDeep(d) : d \in 1..MaxDepth}

\* ConditionCheckerConfig; ctype and children are the Type and Conditions of
\* a present "multiple".
ConditionCheckerConfig(type, present, ctype, children) ==
  [type |-> type,
   multiple      |-> IF "multiple" \in present
                     THEN Some([type |-> ctype, conditions |-> children]) ELSE Nil,
   numberCompare |-> IF "numberCompare" \in present
                     THEN Some([fieldName |-> "value", op |-> "gt", value |-> 5]) ELSE Nil]

ConditionLeaves ==
  {ConditionCheckerConfig("numberCompare", {"numberCompare"}, "and", <<>>),
   ConditionCheckerConfig("numberCompare", {}, "and", <<>>),
   ConditionCheckerConfig("multiple", {}, "and", <<>>),
   ConditionCheckerConfig("bogus", {}, "and", <<>>),
   ConditionCheckerConfig("", {}, "and", <<>>),
   ConditionCheckerConfig("numberCompare", {"multiple"}, "and", <<>>),
   ConditionCheckerConfig("numberCompare", {"numberCompare", "multiple"}, "and", <<>>)}

ConditionProbes ==
  {ConditionCheckerConfig("numberCompare", {"numberCompare"}, "and", <<>>),
   ConditionCheckerConfig("bogus", {"numberCompare"}, "and", <<>>),
   ConditionCheckerConfig("numberCompare", {}, "and", <<>>)}

ConditionWide ==
  {ConditionCheckerConfig("multiple", {"multiple"}, "and", cs) :
     cs \in SeqsUpTo(ConditionProbes, MaxChildren)}
    \cup {ConditionCheckerConfig("multiple", {"multiple"}, "or", <<>>),
          ConditionCheckerConfig("numberCompare", {"numberCompare", "multiple"}, "and",
                                 <<ConditionCheckerConfig("bogus", {}, "and", <<>>)>>)}

RECURSIVE ConditionDeep(_)

ConditionDeep(d) ==
  IF d = 0 THEN ConditionProbes
  ELSE LET inner == ConditionDeep(d - 1)
           ok == ConditionCheckerConfig("numberCompare", {"numberCompare"}, "and", <<>>)
       IN {ConditionCheckerConfig("multiple", {"multiple"}, "and", <<c>>) : c \in inner}
            \cup {ConditionCheckerConfig("multiple", {"multiple"}, "or", <<ok, c>>) : c \in inner}

ConditionCheckerConfigs ==
  ConditionLeaves \cup ConditionWide \cup UNION {ConditionDeep(d) : d \in 1..MaxDepth}

UIDs == {"u1", "u2"}

\* OutputterConfig; children is the Outputters slice of a present "multiple",
\* cond the ConditionalOutputConfig of a present "conditional", uid the UID of
\* a present "remoteWrite".
OutputterConfig(type, present, children, cond, uid) ==
  [type |-> type,
   ManagedStream |-> IF "ManagedStream" \in present THEN Some(Cfg("ManagedStream")) ELSE Nil,
   multiple      |-> IF "multiple" \in present THEN Some([outputters |-> children]) ELSE Nil,
   redirect      |-> IF "redirect" \in present THEN Some(Cfg("redirect")) ELSE Nil,
   conditional   |-> IF "conditional" \in present THEN Some(cond) ELSE Nil,
   threshold     |-> IF "threshold" \in present THEN Some(Cfg("threshold")) ELSE Nil,
   remoteWrite   |-> IF "remoteWrite" \in present THEN Some([uid |-> uid]) ELSE Nil,
   changeLog     |-> IF "changeLog" \in present THEN Some(Cfg("changeLog")) ELSE Nil]

NoCond == [condition |-> Nil, outputter |-> Nil]

OutputLeaf(type, present) == OutputterConfig(type, present, <<>>, NoCond, "")

RemoteWrite(uid) == OutputterConfig("remoteWrite", {"remoteWrite"}, <<>>, NoCond, uid)

Multiple(children) == OutputterConfig("multiple", {"multiple"}, children, NoCond, "")

Conditional(condition, outputter) ==
  OutputterConfig("conditional", {"conditional"}, <<>>,
                  [condition |-> condition, outputter |-> outputter], "")

OutputPayloadTypes ==
  {"ManagedStream", "multiple", "redirect", "conditional", "threshold", "remoteWrite", "changeLog"}

OutputLeaves ==
  {OutputLeaf(t, {t}) : t \in {"ManagedStream", "redirect", "threshold", "changeLog"}}
    \cup {OutputLeaf(t, {}) : t \in OutputPayloadTypes \cup {"localSubscribers"} \cup UnknownTypes}
    \cup {RemoteWrite(u) : u \in UIDs}
    \cup {OutputLeaf("managedStream", {"ManagedStream"}),
          OutputLeaf("jsonAuto", {}),
          OutputLeaf("bogus", {"redirect"}),
          OutputLeaf("redirect", {"threshold"}),
          OutputLeaf("redirect", {"redirect", "threshold"}),
          OutputLeaf("localSubscribers", {"redirect"}),
          OutputLeaf("ManagedStream", {"redirect"}),
          OutputLeaf("remoteWrite", {"redirect"})}

OkOutput == OutputLeaf("localSubscribers", {})

OkCondition == ConditionCheckerConfig("numberCompare", {"numberCompare"}, "and", <<>>)

OutputProbes ==
  {OkOutput, OutputLeaf("bogus", {}), OutputLeaf("redirect", {}),
   RemoteWrite("u1"), RemoteWrite("u2")}

OutputWideProbes == {OkOutput, OutputLeaf("bogus", {}), RemoteWrite("u1")}

OutputWide ==
  {Multiple(cs) : cs \in SeqsUpTo(OutputWideProbes, MaxChildren)}
    \cup {OutputterConfig("ManagedStream", {"ManagedStream", "multiple"}, <<p>>, NoCond, "") :
            p \in OutputWideProbes}
    \cup {OutputterConfig("bogus", {"multiple"}, <<p>>, NoCond, "") : p \in OutputWideProbes}

\* "conditional" nodes over every condition and over the output probes, with
\* either sub-node possibly omitted.
OutputConditionals ==
  {Conditional(Some(c), Some(OkOutput)) : c \in ConditionCheckerConfigs}
    \cup {Conditional(c, Nil) : c \in {Nil} \cup {Some(x) : x \in ConditionProbes}}
    \cup {Conditional(c, Some(o)) : c \in {Nil, Some(OkCondition)}, o \in OutputProbes}
    \cup {Conditional(Some(c), Some(o)) : c \in ConditionProbes, o \in OutputWideProbes}

RECURSIVE OutputDeep(_)

OutputDeep(d) ==
  IF d = 0 THEN OutputProbes
  ELSE LET inner == OutputDeep(d - 1)
       IN {Multiple(<<OkOutput, o>>) : o \in inner}
            \cup {Conditional(Some(OkCondition), Some(o)) : o \in inner}

OutputterConfigs ==
  OutputLeaves \cup OutputWide \cup OutputConditionals
    \cup UNION {OutputDeep(d) : d \in 1..MaxDepth}

\* RemoteWriteBackend and the documents' remoteWriteBackends lists.  A
\* backend written without "settings" has a nil Settings pointer.
Backend(uid, name) == [uid |-> uid, settings |-> Some([endpoint |-> name])]

BackendNoSettings(uid) == [uid |-> uid, settings |-> Nil]

B1 == <<Backend("u1", "e1")>>

B2 == <<Backend("u2", "e2")>>

BackendLists ==
  {<<>>, B1, B2,
   <<Backend("u1", "e1"), Backend("u2", "e2")>>,
   <<BackendNoSettings("u1")>>,
   <<Backend("u1", "e1"), Backend("u1", "e3")>>}

RECURSIVE UsesRemoteWrite(_)

\* Whether an outputter configuration carries a remoteWrite payload anywhere.
UsesRemoteWrite(o) ==
  \/ o.remoteWrite # Nil
  \/ o.multiple # Nil /\ \E i \in DOMAIN o.multiple[1].outputters :
                            UsesRemoteWrite(o.multiple[1].outputters[i])
  \/ o.conditional # Nil /\ o.conditional[1].outputter # Nil
                         /\ UsesRemoteWrite(o.conditional[1].outputter[1])

\* The backend lists a document pairs with the outputter configuration o.
BackendsFor(o) ==
  IF o \in {RemoteWrite(u) : u \in UIDs} THEN BackendLists
  ELSE IF UsesRemoteWrite(o) THEN {<<>>, B1, <<BackendNoSettings("u1")>>}
  ELSE {B1}

\* ChannelRule and ChannelRules
ChannelRule(pattern, converter, processor, outputter) ==
  [pattern |-> pattern,
   settings |-> [converter |-> converter, processor |-> processor, outputter |-> outputter]]

ChannelRules(rs, backends) == [rules |-> rs, remoteWriteBackends |-> backends]

Patterns == {"a", "b"}

\* Documents of one rule that configures one stage, over every configuration.
OneStageDocs ==
  {ChannelRules(<<ChannelRule("a", Some(c), Nil, Nil)>>, B1) : c \in ConverterConfigs}
    \cup {ChannelRules(<<ChannelRule("a", Nil, Some(p), Nil)>>, B1) : p \in ProcessorConfigs}
    \cup UNION {{ChannelRules(<<ChannelRule("a", Nil, Nil, Some(o))>>, b) :
                   b \in BackendsFor(o)} :
                o \in OutputterConfigs}

ConverterProbes ==
  {ConverterConfig("jsonAuto", {"jsonAuto"}), ConverterConfig("bogus", {}),
   ConverterConfig("jsonExact", {})}

Opt(S) == {Nil} \cup {Some(x) : x \in S}

\* Documents of one rule over every subset of configured stages.
StageSubsetDocs ==
  {ChannelRules(<<ChannelRule("a", c, p, o)>>, B1) :
     c \in Opt(ConverterProbes), p \in Opt(ProcessorProbes), o \in Opt(OutputProbes)}

RuleProbes ==
  {ChannelRule(pt, Some(ConverterConfig("jsonAuto", {"jsonAuto"})),
               Some(ProcessorConfig("keepFields", {"keepFields"}, <<>>)),
               Some(RemoteWrite("u1"))) : pt \in Patterns}
    \cup {ChannelRule("a", Nil, Nil, Some(OutputLeaf("bogus", {}))),
          ChannelRule("b", Nil, Nil, Nil)}

\* Documents of up to MaxRules rules.
ManyRuleDocs ==
  {ChannelRules(rs, b) : rs \in SeqsUpTo(RuleProbes, MaxRules), b \in {B1, B2}}

Docs == OneStageDocs \cup StageSubsetDocs \cup ManyRuleDocs

----------------------------------------------------------------------------
(* Sequential use: calls that run one at a time. *)

Procs == {1, 2}

NoFile == [ok |-> FALSE, doc |-> ChannelRules(<<>>, <<>>)]

NoResult == [rules |-> <<>>, err |-> Nil, panic |-> FALSE, visited |-> <<>>]

\* No call has returned rules yet.
NoKept == [held |-> FALSE, doc |-> ChannelRules(<<>>, <<>>), rules |-> <<>>]

Init ==
  /\ remoteWriteBackends = <<>>
  /\ file = NoFile
  /\ result = NoResult
  /\ called = FALSE
  /\ pc = [p \in Procs |-> "idle"]
  /\ channelRules = [p \in Procs |-> ChannelRules(<<>>, <<>>)]
  /\ rules = [p \in Procs |-> <<>>]
  /\ ret = [p \in Procs |-> [rules |-> <<>>, err |-> Nil, panic |-> FALSE]]
  /\ kept = NoKept

\* The state after a call that read the rules file f and ended as r.
Called(f, r) ==
  /\ file' = f
  /\ result' = [rules |-> r.rules, err |-> r.err, panic |-> r.panic, visited |-> r.visited]
  /\ remoteWriteBackends' = r.remoteWriteBackends
  /\ called' = TRUE

\* One call of ListChannelRules with the rules file f.
Call(f) == Called(f, ListChannelRules(remoteWriteBackends, f))

\* A call that finds a rules file json.Unmarshal accepts.
LoadDocument ==
  \E doc \in Docs :
    /\ Call([ok |-> TRUE, doc |-> doc])
    /\ UNCHANGED <<pc, channelRules, rules, ret, kept>>

\* A call that finds no file, or one json.Unmarshal rejects.
LoadUnparsable ==
  /\ Call(NoFile)
  /\ UNCHANGED <<pc, channelRules, rules, ret, kept>>

Next == LoadDocument \/ LoadUnparsable

Spec == Init /\ [][Next]_vars

----------------------------------------------------------------------------
(* Concurrent use: the callers in Procs run ListChannelRules on one         *)
(* FileStorage at the same time.  The method takes no lock, so the write of *)
(* f.remoteWriteBackends and the reads of it in getRemoteWriteConfig        *)
(* interleave; a step is the parse, the write, or one iteration of the loop *)
(* over the rules.  The reads race with the other callers' writes: a read   *)
(* may see the list written last, the caller's own list (a value kept from  *)
(* its own write), or a slice header torn between the two.                  *)

\* ioutil.ReadFile and json.Unmarshal into the local channelRules.
Unmarshal(p) ==
  /\ pc[p] = "idle"
  /\ \E doc \in ManyRuleDocs : channelRules' = [channelRules EXCEPT ![p] = doc]
  /\ pc' = [pc EXCEPT ![p] = "assign"]
  /\ UNCHANGED <<remoteWriteBackends, file, result, called, rules, ret, kept>>

\* f.remoteWriteBackends = channelRules.RemoteWriteBackends
AssignBackends(p) ==
  /\ pc[p] = "assign"
  /\ remoteWriteBackends' = channelRules[p].remoteWriteBackends
  /\ rules' = [rules EXCEPT ![p] = <<>>]
  /\ pc' = [pc EXCEPT ![p] = "loop"]
  /\ UNCHANGED <<file, result, called, channelRules, ret, kept>>

\* The first n entries of list x, all of x when it is shorter.
Prefix(x, n) == SubSeq(x, 1, IF n < Len(x) THEN n ELSE Len(x))

\* What caller p's reads of f.remoteWriteBackends may see.
Seen(p) ==
  LET own == channelRules[p].remoteWriteBackends
  IN {remoteWriteBackends, own, Prefix(remoteWriteBackends, Len(own)),
      Prefix(own, Len(remoteWriteBackends))}

\* Caller p after an iteration that ended as r: return nil and the error,
\* or append the rule.
RuleBuilt(p, r) ==
  IF Failed(r)
  THEN /\ ret' = [ret EXCEPT ![p] = [rules |-> <<>>, err |-> r.err, panic |-> r.panic]]
       /\ pc' = [pc EXCEPT ![p] = "done"]
       /\ UNCHANGED rules
  ELSE /\ rules' = [rules EXCEPT ![p] = Append(@, r.val[1])]
       /\ UNCHANGED <<pc, ret>>

\* One iteration of the loop over channelRules.Rules.
BuildNextRule(p) ==
  /\ pc[p] = "loop"
  /\ Len(rules[p]) < Len(channelRules[p].rules)
  /\ \E backends \in Seen(p) :
       RuleBuilt(p, buildRule(backends, channelRules[p].rules[Len(rules[p]) + 1]))
  /\ UNCHANGED <<remoteWriteBackends, file, result, called, channelRules, kept>>

\* return rules, nil
Return(p) ==
  /\ pc[p] = "loop"
  /\ Len(rules[p]) = Len(channelRules[p].rules)
  /\ ret' = [ret EXCEPT ![p] = [rules |-> rules[p], err |-> Nil, panic |-> FALSE]]
  /\ pc' = [pc EXCEPT ![p] = "done"]
  /\ UNCHANGED <<remoteWriteBackends, file, result, called, channelRules, rules, kept>>

NextConc ==
  \E p \in Procs : Unmarshal(p) \/ AssignBackends(p) \/ BuildNextRule(p) \/ Return(p)

SpecConc == Init /\ [][NextConc]_vars

----------------------------------------------------------------------------
(* Reloads: calls that run one at a time on one FileStorage, the caller of  *)
(* the first call that succeeds holding on to the rules it was returned     *)
(* while later calls load other documents.                                  *)

\* A rule writing to backend u1, and a rule writing to backend u2 from inside
\* a conditional inside a multiple.
KeepRules ==
  {ChannelRule("a", Nil, Nil, Some(RemoteWrite("u1"))),
   ChannelRule("b", Nil, Nil,
               Some(Multiple(<<OkOutput,
                               Conditional(Some(OkCondition), Some(RemoteWrite("u2")))>>)))}

\* Backend lists that define, change or drop the two backends.
KeepBackends ==
  {<<>>, B1, <<Backend("u1", "e1"), Backend("u2", "e2")>>, <<Backend("u1", "e3")>>}

KeepDocs ==
  {ChannelRules(rs, b) : rs \in SeqsUpTo(KeepRules, MaxRules), b \in KeepBackends}

\* What the caller holds after a call that ended as r on document doc: the
\* returned rules, if they are the first it was returned.
Keep(doc, r) ==
  kept' = IF ~kept.held /\ r.err = Nil /\ ~r.panic
          THEN [held |-> TRUE, doc |-> doc, rules |-> r.rules]
          ELSE kept

\* One call of ListChannelRules, which succeeds or fails.
LoadKeeping ==
  \E doc \in KeepDocs :
    /\ Call([ok |-> TRUE, doc |-> doc])
    /\ Keep(doc, result')
    /\ UNCHANGED <<pc, channelRules, rules, ret>>

NextKeep == LoadKeeping

SpecKeep == Init /\ [][NextKeep]_vars

----------------------------------------------------------------------------
(* The configuration grammar as documented: the discriminators of each kind, *)
(* and the payload field of a node, whose key is its discriminator.          *)

RecognizedTypes(kind) ==
  CASE kind = "converter" -> {"jsonAuto", "jsonExact", "jsonFrame", "influxAuto"}
    [] kind = "processor" -> {"dropFields", "keepFields", "multiple"}
    [] kind = "condition" -> {"numberCompare", "multiple"}
    [] kind = "output"    -> {"ManagedStream", "localSubscribers", "redirect", "multiple",
                              "conditional", "threshold", "remoteWrite", "changeLog"}

\* The payload fields of configuration node c that are populated.
PopulatedPayloads(c) == {k \in DOMAIN c \ {"type"} : c[k] # Nil}

\* The latest call parsed its document and returned rules without error.
Loaded == called /\ file.ok /\ result.err = Nil /\ ~result.panic

\* The nodes the latest call resolved, in order.
Resolved == {result.visited[i] : i \in DOMAIN result.visited}

ReturnedError(e) == result.err = Some(e) /\ result.rules = <<>> /\ ~result.panic

----------------------------------------------------------------------------
(* C1: whenever a call resolves a configuration node, of any kind and at any *)
(* depth, whose type is not a recognized discriminator of its kind, the call *)
(* returns the "unknown <kind> type" error naming that type, and no rules,   *)
(* whatever payload fields the node carries.                                 *)
C1_UnknownTypeFailsLoad ==
  called =>
    \A n \in Resolved :
      n.type \notin RecognizedTypes(n.kind) =>
        ReturnedError([msg |-> "unknown " \o n.kind \o " type", arg |-> n.type])

\* An unknown condition type, with a payload, two levels below a rule's outputter.
C1_Witness ==
  /\ called
  /\ \E i \in DOMAIN result.visited :
       /\ i >= 3
       /\ result.visited[i].kind = "condition"
       /\ result.visited[i].type = "bogus"
       /\ PopulatedPayloads(result.visited[i].config) # {}
  /\ result.err = Some([msg |-> "unknown condition type", arg |-> "bogus"])

(* C2, as claimed: whenever a call resolves a node with a recognized type    *)
(* whose payload field of that name is absent, the call returns the "missing *)
(* configuration" error for that type, and no rules.                         *)
C2_Claimed_MissingPayloadFails ==
  called =>
    \A n \in Resolved :
      (n.type \in RecognizedTypes(n.kind) /\ n.type \notin PopulatedPayloads(n.config)) =>
        ReturnedError([msg |-> "missing configuration for", arg |-> n.type])

\* The outputters that are built without reading any payload.
PayloadFreeTypes == {"ManagedStream", "localSubscribers"}

(* C2, amended: the same for every recognized type except the outputters     *)
(* ManagedStream and localSubscribers; a node of one of these two types is   *)
(* never the cause of a "missing configuration" error.                       *)
C2_MissingPayloadFails ==
  called =>
    \A n \in Resolved :
      /\ (/\ n.type \in RecognizedTypes(n.kind)
          /\ ~(n.kind = "output" /\ n.type \in PayloadFreeTypes)
          /\ n.type \notin PopulatedPayloads(n.config)) =>
           ReturnedError([msg |-> "missing configuration for", arg |-> n.type])
      /\ (n.kind = "output" /\ n.type \in PayloadFreeTypes) =>
           result.err # Some([msg |-> "missing configuration for", arg |-> n.type])

\* A payload-free outputter built, then a sibling with its payload missing.
C2_Witness ==
  /\ called
  /\ Len(result.visited) >= 3
  /\ result.visited[2].type = "localSubscribers"
  /\ PopulatedPayloads(result.visited[2].config) = {}
  /\ result.visited[3].type = "redirect"
  /\ result.err = Some([msg |-> "missing configuration for", arg |-> "redirect"])

\* The UIDs of a document's remoteWriteBackends.
BackendUIDs(doc) == {doc.remoteWriteBackends[i].uid : i \in DOMAIN doc.remoteWriteBackends}

\* The remoteWrite nodes the latest call looked up.
ResolvedRemoteWrites ==
  {n \in Resolved : n.kind = "output" /\ n.type = "remoteWrite" /\ n.config.remoteWrite # Nil}

(* C3: in calls that run one at a time, whenever a call resolves a            *)
(* remoteWrite node, at any depth, whose uid is the UID of no entry of the   *)
(* document's remoteWriteBackends, the call returns the "unknown remote      *)
(* write backend uid" error for that uid, and no rules; when some entry has  *)
(* that UID the call does not return that error.                             *)
C3_UnknownBackendFailsLoad ==
  (called /\ file.ok) =>
    \A n \in ResolvedRemoteWrites :
      LET uid == n.config.remoteWrite[1].uid
          e == [msg |-> "unknown remote write backend uid", arg |-> uid]
      IN IF uid \in BackendUIDs(file.doc) THEN result.err # Some(e) ELSE ReturnedError(e)

\* A remoteWrite two levels down whose uid the non-empty backend list lacks.
C3_Witness ==
  /\ called /\ file.ok
  /\ file.doc.remoteWriteBackends # <<>>
  /\ \E i \in DOMAIN result.visited :
       /\ i >= 3
       /\ result.visited[i] \in ResolvedRemoteWrites
       /\ result.visited[i].config.remoteWrite[1].uid \notin BackendUIDs(file.doc)
  /\ result.err # Nil

(* C4: every call that returns, returns either an error and no rules, or no  *)
(* error and one rule per configured rule, in file order, each with the      *)
(* configured pattern; a call that panics returns nothing.                   *)
C4_AllOrNothing ==
  called =>
    IF result.panic THEN result.rules = <<>> /\ result.err = Nil
    ELSE IF result.err # Nil THEN result.rules = <<>>
    ELSE /\ file.ok
         /\ Len(result.rules) = Len(file.doc.rules)
         /\ \A i \in DOMAIN result.rules : result.rules[i].Pattern = file.doc.rules[i].pattern

\* A document whose second rule fails after its first rule was built.
C4_Witness ==
  /\ called /\ file.ok
  /\ Len(file.doc.rules) = 2
  /\ file.doc.rules[1].pattern # file.doc.rules[2].pattern
  /\ Len(result.visited) = 4
  /\ result.err # Nil
  /\ result.rules = <<>>

(* C5, as claimed: a call that fails leaves the FileStorage as it was        *)
(* before the call: its remoteWriteBackends are unchanged by the step.       *)
C5_Claimed_FailedLoadKeepsBackends ==
  [][(called' /\ result'.err # Nil) => remoteWriteBackends' = remoteWriteBackends]_vars

(* C6, as claimed: every concurrent call returns what building its own       *)
(* document against that document's remoteWriteBackends gives.               *)
C6_Claimed_ResolvedAgainstOwnDocument ==
  \A p \in Procs :
    pc[p] = "done" =>
      LET own == buildRules(channelRules[p].remoteWriteBackends, channelRules[p].rules,
                            <<>>, <<>>)
      IN ret[p] = [rules |-> own.rules, err |-> own.err, panic |-> own.panic]

(* C7: an omitted stage is absent in the built rule and causes no error:     *)
(* every failure comes from a node that was resolved, a document whose rules *)
(* omit all three stages loads, and in a loaded rule set a stage is absent   *)
(* exactly when its configuration is omitted.                                *)
C7_OmittedStageIsAbsent ==
  (called /\ file.ok) =>
    /\ (result.err # Nil \/ result.panic) => result.visited # <<>>
    /\ (\A i \in DOMAIN file.doc.rules :
          LET st == file.doc.rules[i].settings
          IN st.converter = Nil /\ st.processor = Nil /\ st.outputter = Nil) => Loaded
    /\ Loaded =>
         /\ Len(result.rules) = Len(file.doc.rules)
         /\ \A i \in DOMAIN result.rules :
              LET st == file.doc.rules[i].settings
                  r == result.rules[i]
              IN /\ (r.Converter = Nil) <=> (st.converter = Nil)
                 /\ (r.Processor = Nil) <=> (st.processor = Nil)
                 /\ (r.Outputter = Nil) <=> (st.outputter = Nil)

\* A loaded rule with a converter and an outputter and no processor, and a
\* loaded rule with no stage at all.
C7_Witness ==
  /\ Loaded
  /\ \E i \in DOMAIN result.rules :
       /\ result.rules[i].Converter = Nil
       /\ result.rules[i].Processor = Nil
       /\ result.rules[i].Outputter = Nil
  /\ \E i \in DOMAIN result.rules :
       /\ result.rules[i].Converter # Nil
       /\ result.rules[i].Processor # Nil
       /\ result.rules[i].Outputter # Nil

(* C8, as claimed: every node of a loaded document has exactly one payload   *)
(* field populated, the one its type names.                                  *)
C8_Claimed_ExactlyOnePayload ==
  Loaded => \A n \in Resolved : PopulatedPayloads(n.config) = {n.type}

\* The node the latest call resolved last.
LastResolved == result.visited[Len(result.visited)]

(* C8, amended: every node of a loaded document, except the outputters       *)
(* ManagedStream and localSubscribers, has the payload field its type names  *)
(* populated, and a node of another recognized type that carries only        *)
(* payloads of other variants is rejected with "missing configuration";      *)
(* payload fields of other variants are not looked at: a "missing            *)
(* configuration" error comes from a node whose own payload field is absent, *)
(* an "unknown type" error from a node whose type is not recognized, so a    *)
(* node that carries an additional payload is not rejected for it.           *)
C8_OwnPayloadPopulated ==
  called =>
    /\ Loaded =>
         \A n \in Resolved :
           \/ n.kind = "output" /\ n.type \in PayloadFreeTypes
           \/ n.type \in PopulatedPayloads(n.config)
    /\ \A n \in Resolved :
         (/\ n.type \in RecognizedTypes(n.kind)
          /\ ~(n.kind = "output" /\ n.type \in PayloadFreeTypes)
          /\ PopulatedPayloads(n.config) # {}
          /\ n.type \notin PopulatedPayloads(n.config)) =>
           ReturnedError([msg |-> "missing configuration for", arg |-> n.type])
    /\ (result.err # Nil /\ result.err[1].msg = "missing configuration for") =>
         /\ LastResolved.type = result.err[1].arg
         /\ LastResolved.type \notin PopulatedPayloads(LastResolved.config)
    /\ (/\ result.err # Nil
        /\ result.visited # <<>>
        /\ result.err[1].msg = "unknown " \o LastResolved.kind \o " type") =>
         LastResolved.type \notin RecognizedTypes(LastResolved.kind)

\* A loaded node that carries a second payload, of another variant.
C8_Witness ==
  /\ Loaded
  /\ \E n \in Resolved :
       /\ n.type \in PopulatedPayloads(n.config)
       /\ PopulatedPayloads(n.config) # {n.type}

(* C9, as claimed: the rules a call returns have pairwise distinct patterns. *)
C9_Claimed_PatternsDistinct ==
  Loaded =>
    \A i, j \in DOMAIN result.rules :
      i # j => result.rules[i].Pattern # result.rules[j].Pattern

RECURSIVE ConditionalsResolved(_)

\* Whether every "conditional" in the built outputter o (a possibly nil
\* Outputter) holds a condition and a child outputter.
ConditionalsResolved(o) ==
  IF o = Nil THEN TRUE
  ELSE CASE o[1].stage = "ConditionalOutput" ->
              /\ o[1].condition # Nil
              /\ o[1].outputter # Nil
              /\ ConditionalsResolved(o[1].outputter)
         [] o[1].stage = "MultipleOutputter" ->
              \A i \in DOMAIN o[1].outputters : ConditionalsResolved(o[1].outputters[i])
         [] OTHER -> TRUE

(* C10, as claimed: every "conditional" outputter in a returned rule holds a *)
(* built condition and a built child outputter.                              *)
C10_Claimed_ConditionalHoldsBoth ==
  Loaded => \A i \in DOMAIN result.rules : ConditionalsResolved(result.rules[i].Outputter)

----------------------------------------------------------------------------
(* C11, as claimed: no call of ListChannelRules aborts abnormally: every     *)
(* call returns, with rules or with an error.                                *)
C11_Claimed_NeverPanics == called => ~result.panic

----------------------------------------------------------------------------
(* What the documented grammar says of one node taken alone. *)

\* The error node n has of its own, whatever its children are: an
\* unrecognized type, a recognized type whose payload is absent, or a
\* remoteWrite whose uid no entry of backends has; Nil when it has none.
OwnError(n, backends) ==
  IF n.type \notin RecognizedTypes(n.kind)
  THEN Some([msg |-> "unknown " \o n.kind \o " type", arg |-> n.type])
  ELSE IF n.kind = "output" /\ n.type \in PayloadFreeTypes THEN Nil
  ELSE IF n.config[n.type] = Nil
  THEN Some([msg |-> "missing configuration for", arg |-> n.type])
  ELSE IF /\ n.kind = "output" /\ n.type = "remoteWrite"
          /\ \A i \in DOMAIN backends : backends[i].uid # n.config.remoteWrite[1].uid
  THEN Some([msg |-> "unknown remote write backend uid",
             arg |-> n.config.remoteWrite[1].uid])
  ELSE Nil

\* The builder of node n's kind applied to n.
BuildOf(n, backends) ==
  CASE n.kind = "converter" -> extractConverter(Some(n.config))
    [] n.kind = "processor" -> extractProcessor(Some(n.config))
    [] n.kind = "condition" -> extractConditionChecker(Some(n.config))
    [] n.kind = "output"    -> extractOutputter(backends, Some(n.config))

\* The types whose builder calls a builder again.
RecursiveTypes(kind) ==
  CASE kind = "converter" -> {}
    [] kind = "processor" -> {"multiple"}
    [] kind = "condition" -> {"multiple"}
    [] kind = "output"    -> {"multiple", "conditional"}

(* C12: when a node a call resolves, at any depth, has an error of its own,  *)
(* the call returns that error and no rules, and the builder of every node   *)
(* the call resolved that reaches it (the failing node itself and each       *)
(* enclosing multiple or conditional) returns that error and no stage.       *)
C12_FailurePropagatesToRoot ==
  (called /\ file.ok) =>
    /\ \A n \in Resolved :
         OwnError(n, file.doc.remoteWriteBackends) # Nil =>
           ReturnedError(OwnError(n, file.doc.remoteWriteBackends)[1])
    /\ \A n \in Resolved :
         LET r == BuildOf(n, file.doc.remoteWriteBackends)
         IN \A i \in DOMAIN r.visited :
              OwnError(r.visited[i], file.doc.remoteWriteBackends) # Nil =>
                /\ r.err = OwnError(r.visited[i], file.doc.remoteWriteBackends)
                /\ r.val = Nil
                /\ ~r.panic

\* A failing outputter inside a conditional inside a multiple, reached after
\* a sibling and a condition that were built.
C12_Witness ==
  /\ called /\ file.ok
  /\ Len(result.visited) >= 5
  /\ result.visited[1].kind = "output" /\ result.visited[1].type = "multiple"
  /\ OwnError(result.visited[2], file.doc.remoteWriteBackends) = Nil
  /\ result.visited[3].type = "conditional"
  /\ result.visited[4].kind = "condition"
  /\ OwnError(LastResolved, file.doc.remoteWriteBackends) # Nil
  /\ result.err = OwnError(LastResolved, file.doc.remoteWriteBackends)
  /\ result.rules = <<>>

----------------------------------------------------------------------------
RECURSIVE Flatten(_)

\* The concatenation of a sequence of sequences.
Flatten(ss) == IF ss = <<>> THEN <<>> ELSE Head(ss) \o Flatten(Tail(ss))

RECURSIVE HeldSettings(_)

\* The settings held by the remoteWrite outputters inside the built
\* outputter o (a possibly nil Outputter), left to right.
HeldSettings(o) ==
  IF o = Nil THEN <<>>
  ELSE CASE o[1].stage = "RemoteWriteOutput" -> <<o[1].config>>
         [] o[1].stage = "MultipleOutputter" ->
              Flatten([i \in DOMAIN o[1].outputters |-> HeldSettings(o[1].outputters[i])])
         [] o[1].stage = "ConditionalOutput" -> HeldSettings(o[1].outputter)
         [] OTHER -> <<>>

RECURSIVE ConfiguredUIDs(_)

\* The uids of the remoteWrite nodes inside the outputter configuration c
\* (a possibly nil pointer), left to right.
ConfiguredUIDs(c) ==
  IF c = Nil THEN <<>>
  ELSE CASE c[1].type = "remoteWrite" /\ c[1].remoteWrite # Nil -> <<c[1].remoteWrite[1].uid>>
         [] c[1].type = "multiple" /\ c[1].multiple # Nil ->
              Flatten([i \in DOMAIN c[1].multiple[1].outputters |->
                         ConfiguredUIDs(Some(c[1].multiple[1].outputters[i]))])
         [] c[1].type = "conditional" /\ c[1].conditional # Nil ->
              ConfiguredUIDs(c[1].conditional[1].outputter)
         [] OTHER -> <<>>

\* Whether settings are those of the first entry of backends with the uid.
IsSettingsOf(settings, backends, uid) ==
  \E j \in DOMAIN backends :
    /\ backends[j].uid = uid
    /\ \A k \in 1..(j - 1) : backends[k].uid # uid
    /\ backends[j].settings = Some(settings)

(* C13: in every state, also after later calls that succeeded or failed and  *)
(* replaced the FileStorage's backend list, each remoteWrite outputter in    *)
(* the rules an earlier call returned holds the settings that its uid had in *)
(* the backend list of the document it was built from.                       *)
C13_HeldSettingsAreThoseOfBuild ==
  kept.held =>
    /\ Len(kept.rules) = Len(kept.doc.rules)
    /\ \A i \in DOMAIN kept.rules :
         LET held == HeldSettings(kept.rules[i].Outputter)
             uids == ConfiguredUIDs(kept.doc.rules[i].settings.outputter)
         IN /\ Len(held) = Len(uids)
            /\ \A k \in DOMAIN held :
                 IsSettingsOf(held[k], kept.doc.remoteWriteBackends, uids[k])

\* Outputters for u1 and u2 are held, and a later call that failed has left
\* a backend list where u1 has other settings and u2 is gone.
C13_Witness ==
  /\ kept.held
  /\ \E i \in DOMAIN kept.rules :
       HeldSettings(kept.rules[i].Outputter) = <<[endpoint |-> "e1"]>>
  /\ \E i \in DOMAIN kept.rules :
       HeldSettings(kept.rules[i].Outputter) = <<[endpoint |-> "e2"]>>
  /\ remoteWriteBackends = <<Backend("u1", "e3")>>
  /\ result.err # Nil
  /\ file.doc # kept.doc

----------------------------------------------------------------------------
\* The stage the documented grammar assigns to a recognized type.
StageName(kind, type) ==
  CASE kind = "converter" /\ type = "jsonAuto"   -> "AutoJsonConverter"
    [] kind = "converter" /\ type = "jsonExact"  -> "ExactJsonConverter"
    [] kind = "converter" /\ type = "jsonFrame"  -> "JsonFrameConverter"
    [] kind = "converter" /\ type = "influxAuto" -> "AutoInfluxConverter"
    [] kind = "processor" /\ type = "dropFields" -> "DropFieldsProcessor"
    [] kind = "processor" /\ type = "keepFields" -> "KeepFieldsProcessor"
    [] kind = "processor" /\ type = "multiple"   -> "MultipleProcessor"
    [] kind = "condition" /\ type = "numberCompare" -> "NumberCompareCondition"
    [] kind = "condition" /\ type = "multiple"   -> "MultipleConditionChecker"
    [] kind = "output" /\ type = "redirect"         -> "RedirectOutput"
    [] kind = "output" /\ type = "multiple"         -> "MultipleOutputter"
    [] kind = "output" /\ type = "ManagedStream"    -> "ManagedStreamOutput"
    [] kind = "output" /\ type = "localSubscribers" -> "LocalSubscribersOutput"
    [] kind = "output" /\ type = "conditional"      -> "ConditionalOutput"
    [] kind = "output" /\ type = "threshold"        -> "ThresholdOutput"
    [] kind = "output" /\ type = "remoteWrite"      -> "RemoteWriteOutput"
    [] kind = "output" /\ type = "changeLog"        -> "ChangeLogOutput"
    [] OTHER -> "none"

\* The child configurations of a "multiple" node of the kind.
ChildConfigs(kind, c) ==
  CASE kind = "processor" -> c.multiple[1].processors
    [] kind = "condition" -> c.multiple[1].conditions
    [] kind = "output"    -> c.multiple[1].outputters

\* The children a built "multiple" stage of the kind holds.
BuiltChildren(kind, b) ==
  CASE kind = "processor" -> b.processors
    [] kind = "condition" -> b.conditions
    [] kind = "output"    -> b.outputters

RECURSIVE BuiltFrom(_, _, _)

\* Whether the built stage b (a possibly nil pointer) is what configuration c
\* (a possibly nil pointer) of the kind describes: the stage of c's type; for
\* a "multiple", one child per configured child, the i-th built from the i-th
\* configuration; for a "conditional", its two sub-nodes likewise.
BuiltFrom(kind, c, b) ==
  IF c = Nil \/ b = Nil THEN c = Nil /\ b = Nil
  ELSE /\ b[1].stage = StageName(kind, c[1].type)
       /\ CASE c[1].type = "multiple" /\ kind # "converter" ->
                 /\ Len(BuiltChildren(kind, b[1])) = Len(ChildConfigs(kind, c[1]))
                 /\ \A i \in DOMAIN BuiltChildren(kind, b[1]) :
                      /\ BuiltChildren(kind, b[1])[i] # Nil
                      /\ BuiltFrom(kind, Some(ChildConfigs(kind, c[1])[i]),
                                   BuiltChildren(kind, b[1])[i])
            [] c[1].type = "conditional" /\ kind = "output" ->
                 /\ BuiltFrom("condition", c[1].conditional[1].condition, b[1].condition)
                 /\ BuiltFrom("output", c[1].conditional[1].outputter, b[1].outputter)
            [] OTHER -> TRUE

\* Whether node n is a "multiple" with a present payload and no children.
IsEmptyMultiple(n) ==
  /\ n.kind # "converter"
  /\ n.type = "multiple"
  /\ n.config.multiple # Nil
  /\ ChildConfigs(n.kind, n.config) = <<>>

(* C14: in the rules a call returns every stage is the one its configuration *)
(* describes, a "multiple" holding one built child per configured child with *)
(* the i-th built from the i-th configuration, at every depth; and a call    *)
(* that has resolved a "multiple" with a present payload and no children as  *)
(* its last node has succeeded.                                              *)
C14_MultipleHoldsChildrenInOrder ==
  (called /\ file.ok) =>
    /\ Loaded =>
         \A i \in DOMAIN result.rules :
           /\ BuiltFrom("converter", file.doc.rules[i].settings.converter,
                        result.rules[i].Converter)
           /\ BuiltFrom("processor", file.doc.rules[i].settings.processor,
                        result.rules[i].Processor)
           /\ BuiltFrom("output", file.doc.rules[i].settings.outputter,
                        result.rules[i].Outputter)
    /\ (result.visited # <<>> /\ IsEmptyMultiple(LastResolved)) => Loaded

\* A loaded "multiple" processor of two different children, the second a
\* "multiple" with no children.
C14_Witness ==
  /\ Loaded
  /\ \E i \in DOMAIN result.rules :
       /\ result.rules[i].Processor # Nil
       /\ result.rules[i].Processor[1].stage = "MultipleProcessor"
       /\ Len(result.rules[i].Processor[1].processors) = 2
       /\ result.rules[i].Processor[1].processors[1][1].stage = "DropFieldsProcessor"
       /\ result.rules[i].Processor[1].processors[2][1] =
            [stage |-> "MultipleProcessor", processors |-> <<>>]
  /\ IsEmptyMultiple(LastResolved)

----------------------------------------------------------------------------
RECURSIVE AllNodes(_, _)

\* Every configuration node of the tree rooted at configuration c of the
\* kind, in pre-order: c, then the nodes under its "multiple" payload, then
\* those under its "conditional" payload, whatever c's type is.
AllNodes(kind, c) ==
  <<Visit(kind, c)>>
    \o (IF kind # "converter" /\ c.multiple # Nil
        THEN Flatten([i \in DOMAIN ChildConfigs(kind, c) |->
                        AllNodes(kind, ChildConfigs(kind, c)[i])])
        ELSE <<>>)
    \o (IF kind = "output" /\ c.conditional # Nil /\ c.conditional[1].condition # Nil
        THEN AllNodes("condition", c.conditional[1].condition[1])
        ELSE <<>>)
    \o (IF kind = "output" /\ c.conditional # Nil /\ c.conditional[1].outputter # Nil
        THEN AllNodes("output", c.conditional[1].outputter[1])
        ELSE <<>>)

\* The nodes of the tree under the possibly nil pointer p.
NodesUnder(kind, p) == IF p = Nil THEN <<>> ELSE AllNodes(kind, p[1])

\* Every configuration node of a document, rule by rule.
DocNodes(doc) ==
  Flatten([i \in DOMAIN doc.rules |->
             NodesUnder("converter", doc.rules[i].settings.converter)
               \o NodesUnder("processor", doc.rules[i].settings.processor)
               \o NodesUnder("output", doc.rules[i].settings.outputter)])

RECURSIVE IsSubseq(_, _)

\* Whether s is t with some elements left out.
IsSubseq(s, t) ==
  IF s = <<>> THEN TRUE
  ELSE IF t = <<>> THEN FALSE
  ELSE IF Head(s) = Head(t) THEN IsSubseq(Tail(s), Tail(t))
  ELSE IsSubseq(s, Tail(t))

(* C15: every call on a document finishes having entered a builder at most  *)
(* once per node of the document: the nodes it resolved are nodes of the     *)
(* document in pre-order, each at most once; the builder of each resolved    *)
(* node enters, after the node itself, only strict sub-nodes of it, each at  *)
(* most once; and the builder of a node whose type is a leaf variant (or is  *)
(* not recognized) enters no other node.                                     *)
C15_EachNodeResolvedAtMostOnce ==
  (called /\ file.ok) =>
    /\ IsSubseq(result.visited, DocNodes(file.doc))
    /\ \A n \in Resolved :
         LET r == BuildOf(n, file.doc.remoteWriteBackends)
         IN /\ r.visited # <<>>
            /\ Head(r.visited) = n
            /\ IsSubseq(Tail(r.visited), Tail(AllNodes(n.kind, n.config)))
            /\ n.type \notin RecursiveTypes(n.kind) => r.visited = <<n>>

\* A loaded outputter tree of five nodes, a conditional inside a multiple,
\* every node of which was resolved.
C15_Witness ==
  /\ Loaded
  /\ Len(result.visited) >= 5
  /\ result.visited = DocNodes(file.doc)
  /\ \E n \in Resolved : n.kind = "output" /\ n.type = "multiple"
  /\ \E n \in Resolved : n.kind = "output" /\ n.type = "conditional"
  /\ \E n \in Resolved : n.kind = "condition"

----------------------------------------------------------------------------
RECURSIVE InOrder(_, _)

\* The documented traversal of the tree rooted at configuration c of the
\* kind: c, then the children of a "multiple" left to right, or the condition
\* and then the outputter of a "conditional".  Under a node whose type is not
\* recognized, every node its payloads carry follows it.
InOrder(kind, c) ==
  <<Visit(kind, c)>>
    \o CASE kind # "converter" /\ c.type = "multiple" /\ c.multiple # Nil ->
               Flatten([i \in DOMAIN ChildConfigs(kind, c) |->
                          InOrder(kind, ChildConfigs(kind, c)[i])])
          [] kind = "output" /\ c.type = "conditional" /\ c.conditional # Nil ->
               (IF c.conditional[1].condition = Nil THEN <<>>
                ELSE InOrder("condition", c.conditional[1].condition[1]))
                 \o (IF c.conditional[1].outputter = Nil THEN <<>>
                     ELSE InOrder("output", c.conditional[1].outputter[1]))
          [] c.type \notin RecognizedTypes(kind) -> Tail(AllNodes(kind, c))
          [] OTHER -> <<>>

\* The documented traversal under the possibly nil pointer p.
InOrderUnder(kind, p) == IF p = Nil THEN <<>> ELSE InOrder(kind, p[1])

\* The documented traversal of a document: rules in file order, and in a
\* rule the converter, the processor, the outputter.
DocOrder(doc) ==
  Flatten([i \in DOMAIN doc.rules |->
             InOrderUnder("converter", doc.rules[i].settings.converter)
               \o InOrderUnder("processor", doc.rules[i].settings.processor)
               \o InOrderUnder("output", doc.rules[i].settings.outputter)])

\* Whether node n is a remoteWrite whose uid is first found, in backends, on
\* an entry without settings: the node on which a call panics.
HasNoSettings(n, backends) ==
  /\ n.kind = "output" /\ n.type = "remoteWrite" /\ n.config.remoteWrite # Nil
  /\ \E j \in DOMAIN backends :
       /\ backends[j].uid = n.config.remoteWrite[1].uid
       /\ \A k \in 1..(j - 1) : backends[k].uid # n.config.remoteWrite[1].uid
       /\ backends[j].settings = Nil

\* Whether resolution cannot go past node n.
StopsAt(n, backends) == OwnError(n, backends) # Nil \/ HasNoSettings(n, backends)

\* The index in ord of the first node resolution cannot go past, 0 if none.
FirstStop(ord, backends) ==
  IF \E i \in DOMAIN ord : StopsAt(ord[i], backends)
  THEN CHOOSE i \in DOMAIN ord :
         /\ StopsAt(ord[i], backends)
         /\ \A j \in 1..(i - 1) : ~StopsAt(ord[j], backends)
  ELSE 0

(* C16: a call resolves the nodes of its document in the documented order,  *)
(* up to and including the first node that has an error of its own, returns *)
(* that node's error and no rules, and resolves no node after it, so none of *)
(* that node's children; with no such node it resolves every node and        *)
(* returns the rules.  (On a backend entry without settings the call panics  *)
(* at the node that names it, and likewise resolves nothing after it.)       *)
C16_FailFastInDocumentOrder ==
  (called /\ file.ok) =>
    LET ord == DocOrder(file.doc)
        k == FirstStop(ord, file.doc.remoteWriteBackends)
    IN IF k = 0 THEN Loaded /\ result.visited = ord
       ELSE /\ result.visited = SubSeq(ord, 1, k)
            /\ result.rules = <<>>
            /\ IF OwnError(ord[k], file.doc.remoteWriteBackends) # Nil
               THEN /\ result.err = OwnError(ord[k], file.doc.remoteWriteBackends)
                    /\ ~result.panic
               ELSE result.panic

\* A conditional whose condition and whose outputter are both invalid: the
\* call returned the condition's error and did not resolve the outputter.
C16_Witness ==
  /\ called /\ file.ok
  /\ Len(result.visited) = 2
  /\ result.visited[1].type = "conditional"
  /\ result.visited[2].kind = "condition"
  /\ result.err = OwnError(result.visited[2], file.doc.remoteWriteBackends)
  /\ result.err # Nil
  /\ Len(DocOrder(file.doc)) = 3
  /\ OwnError(DocOrder(file.doc)[3], file.doc.remoteWriteBackends) # Nil

====
